---- MODULE Spec2Model ----
(***************************************************************************)
(* KarmaFeed: the like coordinator and the karma ledger.                   *)
(*                                                                         *)
(* The store holds Like rows, the denormalised like_count of every post    *)
(* and comment, and the append-only KarmaEvent log.  Gunicorn workers run  *)
(* like_post and toggle requests concurrently; each request is one         *)
(* transaction.atomic() block whose writes stay tentative (local to the    *)
(* worker) until COMMIT and are discarded by ROLLBACK.                     *)
(***************************************************************************)
EXTENDS Integers, Sequences, FiniteSets, Bags, TLC

\* ---- bounds of the model ------------------------------------------------
NumWorkers == 2
MaxCalls == 3
MaxClock == 1
MaxEvents == 3
MaxComments == 4
MaxPosts == 3
MaxStamp == 2
PageSize == 2           \* posts on a feed page, scaled down
MaxLikeCount == 1       \* like_count a comment is rendered with
MaxClicks == 4          \* clicks on the like button of one comment

\* ---- program constants --------------------------------------------------
KARMA_POST_LIKE == 5
KARMA_COMMENT_LIKE == 1
NoParent == 0            \* parent_id is None
BoardNow == 50           \* the hour at which the leaderboard is read
PostQueries == 1         \* SELECT ... FROM feed_post ... WHERE id = ...
CommentQueries == 1      \* SELECT ... FROM feed_comment ... WHERE post_id = ...
NoCursor == 0            \* cursor = null: the first page

Users == {"alice", "bob"}
Posts == {<<"post", 1>>}
Comments == {<<"comment", 1>>}
Targets == Posts \cup Comments
Keys == Users \X Targets
Ops == {"like", "toggle"}
Windows == {24, 48}
Limits == {1, 5}
Actions == {"created", "removed", "already_exists", "failed"}

\* author of each post / comment: alice wrote the post, bob the comment
Author(t) == IF t[1] = "post" THEN "alice" ELSE "bob"

VARIABLES
    likes,        \* Like table: (user, target) |-> number of Like rows
    like_count,   \* target |-> denormalised like_count column
    karma,        \* KarmaEvent table, in commit order
    clock,        \* server clock (timezone.now)
    tx,           \* bag of open requests, each with the tentative writes of its transaction
    hist,         \* observation: bag of completed calls <<op, pair, action>>
    conc,         \* observation: most calls on one pair in flight at once
    streak,       \* observation: pair |-> toggles completed in a row, see NoteCommit
    started,      \* observation: number of requests received so far
    undone,       \* observation: some ROLLBACK discarded a Like row, a KarmaEvent and a counter update
    board,        \* client: the last response of the leaderboard / user-karma API
    comments,     \* Comment table of the post, in created_at order
    page,         \* client: the last assembled comment tree and the queries it took
    posts,        \* Post table behind the feed
    feed,         \* client: the state of the Feed component and its requests in flight
    comment_count,\* post |-> denormalised comment_count column, for the posts that exist
    outcome,      \* the last answer of a like or delete on the thread
    form,         \* client: the state of the CreatePost component and its request
    widget,       \* client: the like state of a Comment component and its requests
    reply,        \* client: a response handed to apiRequest and what apiRequest made of it
    label         \* client: a date handed to formatDistanceToNow and the text it returned

backend == <<likes, like_count, karma, clock, tx, hist, conc, streak, started, undone>>
\* state the like coordinator, the leaderboard and the comment tree never touch
others == <<posts, feed, comment_count, outcome, form, widget, reply, label>>
views == <<board, comments, page, others>>
vars == <<likes, like_count, karma, clock, tx, hist, conc, streak, started, undone,
          board, comments, page, posts, feed, comment_count, outcome, form, widget,
          reply, label>>
\* what the steps of one component leave alone
notFeed == <<backend, board, comments, page, comment_count, outcome, form, widget, reply, label>>
notThread == <<clock, tx, hist, conc, streak, started, undone, board, page,
               posts, feed, form, widget, reply, label>>
notForm == <<backend, board, comments, page, posts, feed, comment_count, outcome,
             widget, reply, label>>
notWidget == <<backend, board, comments, page, posts, feed, comment_count, outcome,
               form, reply, label>>
notReply == <<backend, board, comments, page, posts, feed, comment_count, outcome,
              form, widget, label>>
notLabel == <<backend, board, comments, page, posts, feed, comment_count, outcome,
              form, widget, reply>>

\* a request as a worker picks it up
NewTx(op, u, t) ==
    [pc |-> "begun", op |-> op, user |-> u, target |-> t,
     ins |-> 0, del |-> 0, events |-> <<>>, delta |-> 0]

KeyOf(r) == <<r.user, r.target>>
Open == BagToSet(tx)
Others(r) == BagToSet(tx (-) SetToBag({r}))
Replace(r, r2) == (tx (-) SetToBag({r})) (+) SetToBag({r2})
Close(r) == tx (-) SetToBag({r})

RECURSIVE SumOver(_, _)
SumOver(f, S) ==
    IF S = {} THEN 0
    ELSE LET x == CHOOSE y \in S : TRUE IN f[x] + SumOver(f, S \ {x})

\* every like is worth the post amount
KarmaDelta_Flat(t) == KARMA_POST_LIKE

\* karma_delta by kind of target: +5 for a post, +1 for a comment
KarmaDelta(t) == IF t[1] = "post" THEN KARMA_POST_LIKE ELSE KARMA_COMMENT_LIKE

EventType(t) == IF t[1] = "post" THEN "POST_LIKED" ELSE "COMMENT_LIKED"

\* the constraint is missing from the migration
UniqueViolation_NoConstraint(rows, key) == FALSE

\* UNIQUE (user, content_type, object_id): a committed row with the key exists
UniqueViolation(rows, key) == rows[key] >= 1

\* uniqueness decided by a SELECT before the INSERT: nothing waits
KeyLocked_CheckThenInsert(r) == FALSE

\* an INSERT or DELETE on a key waits while another open transaction holds a
\* tentative row for the same key
KeyLocked(r) ==
    \E o \in Others(r) : KeyOf(o) = KeyOf(r) /\ (o.ins + o.del) > 0

\* UPDATE ... SET like_count = F('like_count') + d takes the target's row lock
RowLocked(r) ==
    \E o \in Others(r) : o.target = r.target /\ o.pc = "counted"

\* the self-like check is left out
GrantsKarma_Always(u, t) == TRUE

\* the self-like check: karma only when the liker is not the author
GrantsKarma(u, t) == Author(t) # u

\* the timestamp comes with the request instead of from timezone.now
NewKarmaEvent_ClientTime(u, t) ==
    [recipient |-> Author(t), actor |-> u, event_type |-> EventType(t),
     karma_delta |-> KarmaDelta(t), created_at |-> 0, target |-> t]

NewKarmaEvent(u, t) ==
    [recipient |-> Author(t), actor |-> u, event_type |-> EventType(t),
     karma_delta |-> KarmaDelta(t), created_at |-> clock, target |-> t]

\* the counter update is left out of the transaction
ApplyCounter_Missing(c, d) == c

\* removing a like forgets the counter
ApplyCounter_NoDecrement(c, d) == IF d < 0 THEN c ELSE c + d

\* F('like_count') + d
ApplyCounter(c, d) == c + d

\* COMMIT: every tentative write of the transaction becomes visible at once
CommittedLikes(r) == [likes EXCEPT ![KeyOf(r)] = @ + r.ins - r.del]
CommittedCount(r) == [like_count EXCEPT ![r.target] = ApplyCounter(@, r.delta)]
\* removing a like takes the karma it granted back
CommittedKarma_Retract(r) ==
    IF r.del = 1
    THEN SelectSeq(karma, LAMBDA e : ~(e.actor = r.user /\ e.target = r.target))
    ELSE karma \o r.events

\* update_or_create: one KarmaEvent per (actor, target), rewritten on every like
CommittedKarma_Upsert(r) ==
    IF r.events = <<>> THEN karma
    ELSE SelectSeq(karma, LAMBDA e : ~(e.actor = r.user /\ e.target = r.target)) \o r.events

CommittedKarma(r) == karma \o r.events

\* no atomic block: the Like row written before the fault stays
RolledBackLikes_NoAtomic(r) == [likes EXCEPT ![KeyOf(r)] = @ + r.ins - r.del]

\* ROLLBACK: every tentative write of the transaction is discarded
RolledBackLikes(r) == likes
RolledBackCount(r) == like_count
RolledBackKarma(r) == karma

\* ---- comment tree -------------------------------------------------------
\* the client has not loaded the post yet
NoPage == [kind |-> "none"]

\* every comment is stored as a top-level comment
NewDepth_Flat(table, parent_id) == 0

\* CommentCreateSerializer.create: depth of the new comment
NewDepth(table, parent_id) ==
    IF parent_id # NoParent THEN table[parent_id].depth + 1 ELSE 0

NewComment(table, parent_id) ==
    [id |-> Len(table) + 1, parent_id |-> parent_id, depth |-> NewDepth(table, parent_id)]

Ids(flat) == {flat[i].id : i \in 1..Len(flat)}

\* nodes = {c.id: {'comment': c, 'replies': []} for c in flat_comments}
Nodes(flat) ==
    [id \in Ids(flat) |->
        [comment |-> flat[CHOOSE i \in 1..Len(flat) : flat[i].id = id], replies |-> <<>>]]

\* replies are not attached at all
Attach_RootsOnly(f, c) ==
    IF c.parent_id = NoParent THEN [f EXCEPT !.roots = Append(@, c.id)] ELSE f

\* a reply is put in front of its siblings
Attach_Prepend(f, c) ==
    IF c.parent_id = NoParent THEN [f EXCEPT !.roots = Append(@, c.id)]
    ELSE IF c.parent_id \in DOMAIN f.nodes
         THEN [f EXCEPT !.nodes[c.parent_id].replies = <<c.id>> \o @]
    ELSE f

\* the body of the loop of build_comment_tree
Attach(f, c) ==
    IF c.parent_id = NoParent THEN [f EXCEPT !.roots = Append(@, c.id)]
    ELSE IF c.parent_id \in DOMAIN f.nodes
         THEN [f EXCEPT !.nodes[c.parent_id].replies = Append(@, c.id)]
    ELSE f

RECURSIVE Loop(_, _, _)
\* for comment in flat_comments: ...
Loop(flat, i, f) == IF i > Len(flat) THEN f ELSE Loop(flat, i + 1, Attach(f, flat[i]))

\* build_comment_tree (queries.py): root_nodes, with the nodes they refer to
build_comment_tree(flat) ==
    [error |-> "none", tree |-> Loop(flat, 1, [roots |-> <<>>, nodes |-> Nodes(flat)])]

\* some comment names a parent that is not in the list
HasOrphan(flat) ==
    \E i \in 1..Len(flat) : flat[i].parent_id # NoParent /\ flat[i].parent_id \notin Ids(flat)

\* the listing of build_comment_tree in EXPLAINER.md: nodes[c.parent_id] is
\* indexed without the membership test
build_comment_tree_explainer(flat) ==
    IF HasOrphan(flat) THEN [error |-> "KeyError"] ELSE build_comment_tree(flat)

\* what build_comment_tree can return: the listings of the function differ
BuildOutcomes(flat) == {build_comment_tree(flat), build_comment_tree_explainer(flat)}

\* one query per comment
LoadQueries_PerComment(table) == PostQueries + Len(table)

\* the queries of get_post_with_comment_tree: the post, then all its comments
LoadQueries(table) == PostQueries + CommentQueries

\* the comments a prior stage lets through
Keep(table, keep) == SelectSeq(table, LAMBDA c : c.id \in keep)

RECURSIVE Render(_, _, _)
\* PostDetail maps post.comments to <Comment depth={0}>, Comment maps its
\* replies to <Comment depth={depth + 1}>: the components in rendering order
Render(t, ids, depth) ==
    IF ids = <<>> THEN <<>>
    ELSE <<[id |-> Head(ids), depth |-> depth]>>
         \o Render(t, t.nodes[Head(ids)].replies, depth + 1)
         \o Render(t, Tail(ids), depth)

\* ---- leaderboard ---------------------------------------------------------
\* recipient_id of each user
UserId(u) == IF u = "alice" THEN 1 ELSE 2

\* the client has not asked yet
NoBoard == [kind |-> "none"]

\* cutoff = timezone.now() - timedelta(hours=hours)
Cutoff(now, hours) == now - hours

\* no WHERE clause at all
Filtered_AllTime(log, now, hours) == 1..Len(log)

\* .filter(created_at__gte=cutoff): the rows of the log that pass
Filtered(log, now, hours) ==
    {i \in 1..Len(log) : log[i].created_at >= Cutoff(now, hours)}

\* .values('recipient_id', 'recipient__username'): GROUP BY recipient
Grouped(log, rows) == {log[i].recipient : i \in rows}

\* .annotate(total_karma=Sum('karma_delta'))
TotalKarma(log, rows, u) ==
    LET mine == {i \in rows : log[i].recipient = u}
    IN SumOver([i \in mine |-> log[i].karma_delta], mine)

RECURSIVE Orderings(_)
Orderings(S) ==
    IF S = {} THEN {<<>>}
    ELSE UNION {{<<x>> \o s : s \in Orderings(S \ {x})} : x \in S}

\* .order_by('-total_karma'): totals descending; groups with equal totals
\* come in whatever order the database produces them
OrderBy(log, rows) ==
    {s \in Orderings(Grouped(log, rows)) :
        \A i, j \in 1..Len(s) :
            i < j => TotalKarma(log, rows, s[i]) >= TotalKarma(log, rows, s[j])}

\* the LIMIT is left out
Slice_Unlimited(s, limit) == s

\* [:limit]
Slice(s, limit) == SubSeq(s, 1, IF limit < Len(s) THEN limit ELSE Len(s))

LeaderboardEntry(log, rows, s, idx) ==
    [rank |-> idx, user_id |-> UserId(s[idx]), username |-> s[idx],
     total_karma |-> TotalKarma(log, rows, s[idx])]

\* the lists get_leaderboard(hours, limit) can return at time now
get_leaderboard(log, now, hours, limit) ==
    LET rows == Filtered(log, now, hours)
    IN {[idx \in 1..Len(Slice(s, limit)) |-> LeaderboardEntry(log, rows, s, idx)] :
            s \in OrderBy(log, rows)}

\* get_user_karma(user_id, hours): the same aggregation for one recipient,
\* 0 when no row passes the filter
get_user_karma(log, now, u, hours) == TotalKarma(log, Filtered(log, now, hours), u)

\* a KarmaEvent granted to u for a like of one of u's posts or comments at hour t
LoggedEvent(u, kind, t) ==
    [recipient |-> u, actor |-> CHOOSE a \in Users : a # u,
     event_type |-> EventType(<<kind, 2>>), karma_delta |-> KarmaDelta(<<kind, 2>>),
     created_at |-> t, target |-> <<kind, 2>>]

\* hours at which the events of a log were created: 25 h and 23 h before the
\* read, at the read, and 1 h after it
Stamps == {BoardNow - 25, BoardNow - 23, BoardNow, BoardNow + 1}
LoggedEvents == {LoggedEvent(u, kind, t) : u \in Users, kind \in {"post", "comment"}, t \in Stamps}
Logs == UNION {[1..n -> LoggedEvents] : n \in 0..MaxEvents}

\* ---- observation variables (no program state) ---------------------------
\* the call r completes with the given action
NoteResult(r, action) ==
    hist' = hist (+) SetToBag({<<r.op, KeyOf(r), action>>})

\* streak[u, t] = [n, base, fresh]: n toggles of (u, t) have committed since the
\* last commit on t that was not a toggle of (u, t); base and fresh are
\* like_count[t] and "(u, t) has no Like row" as that commit left them
NoteCommit(r) ==
    streak' = [k \in Keys |->
                 IF k[2] # r.target THEN streak[k]
                 ELSE IF k = KeyOf(r) /\ r.op = "toggle"
                      THEN [streak[k] EXCEPT !.n = @ + 1]
                 ELSE [n |-> 0, base |-> CommittedCount(r)[k[2]],
                       fresh |-> (CommittedLikes(r)[k] = 0)]]

\* calls on the pair of r that are in flight together with r
NoteBegin(r) ==
    LET same == {o \in Open : KeyOf(o) = KeyOf(r)}
        now == 1 + SumOver(tx, same)
    IN conc' = IF now > conc THEN now ELSE conc

\* ---- components that have not run yet ---------------------------------------
NoOutcome == [kind |-> "none"]
NoForm == [kind |-> "none"]
NoWidget == [kind |-> "none"]
NoReply == [kind |-> "none"]
NoLabel == [kind |-> "none"]

\* ---- the feed ---------------------------------------------------------------
\* the Feed component before its first effect has run
NoFeed ==
    [mounted |-> FALSE, posts |-> <<>>, loading |-> TRUE, error |-> FALSE,
     nextCursor |-> NoCursor, loadingMore |-> FALSE, inflight |-> <<>>, first |-> {}]

\* created_at__lt=cursor: the posts strictly older than the cursor
Candidates(table, cursor) ==
    {p \in table : cursor = NoCursor \/ p.created_at < cursor}

\* ORDER BY created_at DESC: posts of one instant come in any order
NewestFirst(rows) ==
    {s \in Orderings(rows) :
        \A i \in 1..(Len(s) - 1) : s[i].created_at >= s[i + 1].created_at}

\* GET /feed/?cursor=..: one page and the cursor of the next one, null on the
\* last page
FeedPages(table, cursor) ==
    {[results |-> SubSeq(s, 1, IF Len(s) < PageSize THEN Len(s) ELSE PageSize),
      next |-> IF Len(s) > PageSize THEN s[PageSize].created_at ELSE NoCursor] :
        s \in NewestFirst(Candidates(table, cursor))}

\* the sequence s without its i-th element
Without(s, i) == SubSeq(s, 1, i - 1) \o SubSeq(s, i + 1, Len(s))

\* setLoadingMore(true) is left out when the next page is requested
StartLoad_NoFlag(f, cursor) ==
    [f EXCEPT !.loading = IF cursor = NoCursor THEN TRUE ELSE @,
              !.inflight = Append(@, [cursor |-> cursor])]

\* loadPosts up to its await: raise the flag of the kind of load and send the
\* request
StartLoad(f, cursor) ==
    [f EXCEPT !.loadingMore = IF cursor # NoCursor THEN TRUE ELSE @,
              !.loading = IF cursor = NoCursor THEN TRUE ELSE @,
              !.inflight = Append(@, [cursor |-> cursor])]

\* what the Feed component renders
ShowsSpinner == feed.loading
ShowsError == ~feed.loading /\ feed.error
ShowsList == ~feed.loading /\ ~feed.error /\ Len(feed.posts) > 0
ShowsLoadMore == ShowsList /\ feed.nextCursor # NoCursor

\* ---- the state every specification starts the other components in ----------
\* database state before any request, and clients that have loaded nothing
InitStore ==
    /\ likes = [k \in Keys |-> 0]
    /\ like_count = [t \in Targets |-> 0]
    /\ karma = <<>>
    /\ clock = 0
    /\ tx = EmptyBag
    /\ hist = EmptyBag
    /\ conc = 0
    /\ streak = [k \in Keys |-> [n |-> 0, base |-> 0, fresh |-> TRUE]]
    /\ started = 0
    /\ undone = FALSE
    /\ board = NoBoard
    /\ comments = <<>>
    /\ page = NoPage
    /\ comment_count = [t \in Posts |-> 0]
    /\ outcome = NoOutcome

InitFeed ==
    /\ posts = {}
    /\ feed = NoFeed

InitComponents ==
    /\ InitFeed
    /\ form = NoForm
    /\ widget = NoWidget
    /\ reply = NoReply
    /\ label = NoLabel

InitOthers ==
    /\ InitComponents
    /\ comment_count = [t \in Posts |-> 0]
    /\ outcome = NoOutcome

Init ==
    /\ likes = [k \in Keys |-> 0]
    /\ like_count = [t \in Targets |-> 0]
    /\ karma = <<>>
    /\ clock = 0
    /\ tx = EmptyBag
    /\ hist = EmptyBag
    /\ conc = 0
    /\ streak = [k \in Keys |-> [n |-> 0, base |-> 0, fresh |-> TRUE]]
    /\ started = 0
    /\ undone = FALSE
    /\ board = NoBoard
    /\ comments = <<>>
    /\ page = NoPage
    /\ InitOthers

\* a request arrives and a free worker picks it up
Begin(op, u, t) ==
    /\ BagCardinality(tx) < NumWorkers
    /\ started < MaxCalls
    /\ started' = started + 1
    /\ tx' = tx (+) SetToBag({NewTx(op, u, t)})
    /\ NoteBegin(NewTx(op, u, t))
    /\ UNCHANGED <<likes, like_count, karma, clock, hist, streak, undone, views>>

\* Like.objects.create(...) succeeds and, in the same transaction,
\* KarmaEvent.objects.create(...) unless it is a self-like: both rows are
\* written tentatively
InsertLike(r) ==
    /\ r.pc = "begun"
    /\ ~KeyLocked(r)
    /\ ~UniqueViolation(likes, KeyOf(r))
    /\ tx' = Replace(r, [r EXCEPT !.pc = "written", !.ins = 1,
                                  !.events = IF GrantsKarma(r.user, r.target)
                                             THEN <<NewKarmaEvent(r.user, r.target)>>
                                             ELSE <<>>])
    /\ UNCHANGED <<likes, like_count, karma, clock, hist, conc, streak, started, undone, views>>

\* the counter update sits outside the try block and runs on a duplicate too
LikeConflict_CountsAnyway(r) ==
    /\ r.pc = "begun"
    /\ r.op = "like"
    /\ ~KeyLocked(r)
    /\ UniqueViolation(likes, KeyOf(r))
    /\ NoteResult(r, "already_exists")
    /\ like_count' = [like_count EXCEPT ![r.target] = @ + 1]
    /\ tx' = Close(r)
    /\ UNCHANGED <<likes, karma, clock, conc, streak, started, undone, views>>

\* like_post: IntegrityError is caught, the result is already_exists
LikeConflict(r) ==
    /\ r.pc = "begun"
    /\ r.op = "like"
    /\ ~KeyLocked(r)
    /\ UniqueViolation(likes, KeyOf(r))
    /\ NoteResult(r, "already_exists")
    /\ tx' = Close(r)
    /\ UNCHANGED <<likes, like_count, karma, clock, conc, streak, started, undone, views>>

\* toggle: the uniqueness conflict selects the reverse transition, the
\* existing row is deleted tentatively
ToggleConflict(r) ==
    /\ r.pc = "begun"
    /\ r.op = "toggle"
    /\ ~KeyLocked(r)
    /\ UniqueViolation(likes, KeyOf(r))
    /\ tx' = Replace(r, [r EXCEPT !.pc = "deleted", !.del = 1])
    /\ UNCHANGED <<likes, like_count, karma, clock, hist, conc, streak, started, undone, views>>

\* Post.objects.filter(id=...).update(like_count=F('like_count') +/- 1)
UpdateLikeCount(r) ==
    /\ r.pc \in {"written", "deleted"}
    /\ ~RowLocked(r)
    /\ tx' = Replace(r, [r EXCEPT !.pc = "counted",
                                  !.delta = IF r.pc = "written" THEN 1 ELSE -1])
    /\ UNCHANGED <<likes, like_count, karma, clock, hist, conc, streak, started, undone, views>>

\* leaving the atomic block: COMMIT
Commit(r) ==
    /\ r.pc = "counted"
    /\ likes' = CommittedLikes(r)
    /\ like_count' = CommittedCount(r)
    /\ karma' = CommittedKarma(r)
    /\ NoteResult(r, IF r.ins = 1 THEN "created" ELSE "removed")
    /\ NoteCommit(r)
    /\ tx' = Close(r)
    /\ UNCHANGED <<clock, conc, started, undone, views>>

\* any other exception inside the atomic block: ROLLBACK, the caller gets an error
Fail(r) ==
    /\ likes' = RolledBackLikes(r)
    /\ like_count' = RolledBackCount(r)
    /\ karma' = RolledBackKarma(r)
    /\ NoteResult(r, "failed")
    /\ undone' = (undone \/ (r.ins = 1 /\ r.events # <<>> /\ r.delta = 1))
    /\ tx' = Close(r)
    /\ UNCHANGED <<clock, conc, streak, started, views>>

\* get_leaderboard: one SELECT ... GROUP BY over the KarmaEvent table; the
\* rows go to the client, the store is only read
GetLeaderboard(hours, limit) ==
    /\ UNCHANGED vars

\* time passes on the server
Tick ==
    /\ clock < MaxClock
    /\ clock' = clock + 1
    /\ UNCHANGED <<likes, like_count, karma, tx, hist, conc, streak, started, undone, views>>

Next ==
    \/ \E op \in Ops, u \in Users, t \in Targets : Begin(op, u, t)
    \/ \E r \in Open : InsertLike(r)
    \/ \E r \in Open : LikeConflict(r)
    \/ \E r \in Open : ToggleConflict(r)
    \/ \E r \in Open : UpdateLikeCount(r)
    \/ \E r \in Open : Commit(r)
    \/ \E r \in Open : Fail(r)
    \/ \E hours \in Windows, limit \in Limits : GetLeaderboard(hours, limit)
    \/ Tick

Spec == Init /\ [][Next]_vars

\* ---- the leaderboard read over every log ------------------------------------
InitBoard ==
    /\ likes = [k \in Keys |-> 0]
    /\ like_count = [t \in Targets |-> 0]
    /\ karma \in Logs
    /\ clock = BoardNow
    /\ tx = EmptyBag
    /\ hist = EmptyBag
    /\ conc = 0
    /\ streak = [k \in Keys |-> [n |-> 0, base |-> 0, fresh |-> TRUE]]
    /\ started = 0
    /\ undone = FALSE
    /\ board = NoBoard
    /\ comments = <<>>
    /\ page = NoPage
    /\ InitOthers

\* GET /leaderboard/?hours=..&limit=..: the client keeps the list it receives
FetchLeaderboard(hours, limit) ==
    /\ \E rows \in get_leaderboard(karma, clock, hours, limit) :
          board' = [kind |-> "leaderboard", hours |-> hours, limit |-> limit,
                    now |-> clock, leaderboard |-> rows]
    /\ UNCHANGED <<likes, like_count, karma, clock, tx, hist, conc, streak, started, undone,
                   comments, page, others>>

\* get_user_karma(user_id, hours)
GetUserKarma(u, hours) ==
    /\ board' = [kind |-> "user_karma", user |-> u, hours |-> hours, now |-> clock,
                 karma |-> get_user_karma(karma, clock, u, hours)]
    /\ UNCHANGED <<likes, like_count, karma, clock, tx, hist, conc, streak, started, undone,
                   comments, page, others>>

NextBoard ==
    \/ \E hours \in Windows, limit \in Limits : FetchLeaderboard(hours, limit)
    \/ \E u \in Users, hours \in Windows : GetUserKarma(u, hours)

SpecBoard == InitBoard /\ [][NextBoard]_vars

\* ---- the comment thread of the post ----------------------------------------
\* POST /comments/: a top-level comment or a reply to an existing comment
CreateComment(parent_id) ==
    /\ Len(comments) < MaxComments
    /\ comments' = Append(comments, NewComment(comments, parent_id))
    /\ UNCHANGED <<likes, like_count, karma, clock, tx, hist, conc, streak, started, undone,
                   board, page, others>>

\* GET /posts/<id>/: get_post_with_comment_tree fetches the post and all its
\* comments and assembles the tree
GetPostWithCommentTree ==
    /\ page' = [kind |-> "post", queries |-> LoadQueries(comments), flat |-> comments,
                comment_count |-> Len(comments), out |-> build_comment_tree(comments)]
    /\ UNCHANGED <<likes, like_count, karma, clock, tx, hist, conc, streak, started, undone,
                   board, comments, others>>

\* build_comment_tree on a list some comments were filtered out of
BuildCommentTree(keep) ==
    /\ \E out \in BuildOutcomes(Keep(comments, keep)) :
          page' = [kind |-> "tree", queries |-> 0, flat |-> Keep(comments, keep),
                   comment_count |-> Len(Keep(comments, keep)), out |-> out]
    /\ UNCHANGED <<likes, like_count, karma, clock, tx, hist, conc, streak, started, undone,
                   board, comments, others>>

NextTree ==
    \/ \E parent_id \in {NoParent} \cup (1..Len(comments)) : CreateComment(parent_id)
    \/ GetPostWithCommentTree
    \/ \E keep \in SUBSET (1..Len(comments)) : BuildCommentTree(keep)

SpecTree == Init /\ [][NextTree]_vars

\* ---- the feed and its pages -------------------------------------------------
\* POST /posts/: a post is appended; created_at is the server's clock, which
\* may not have moved since the previous post
InsertPost(created_at) ==
    /\ Cardinality(posts) < MaxPosts
    /\ \A p \in posts : p.created_at <= created_at
    /\ posts' = posts \cup {[id |-> Cardinality(posts) + 1, created_at |-> created_at]}
    /\ UNCHANGED <<notFeed, feed>>

\* useEffect(() => { loadPosts(); }, []): the first page is requested on mount
Mount ==
    /\ ~feed.mounted
    /\ feed' = [StartLoad(feed, NoCursor) EXCEPT !.mounted = TRUE]
    /\ UNCHANGED <<notFeed, posts>>

\* a click on Load More, which is rendered with the list and disabled while
\* loadingMore
HandleLoadMore ==
    /\ feed.mounted
    /\ ShowsLoadMore
    /\ ~feed.loadingMore
    /\ feed.nextCursor # NoCursor /\ ~feed.loadingMore
    /\ feed' = StartLoad(feed, feed.nextCursor)
    /\ UNCHANGED <<notFeed, posts>>

\* a click on Retry, which is rendered with the error
Retry ==
    /\ feed.mounted
    /\ ShowsError
    /\ feed' = StartLoad(feed, NoCursor)
    /\ UNCHANGED <<notFeed, posts>>

\* the i-th request in flight is served and loadPosts resumes with the page
ResolveFeed(i) ==
    /\ i \in 1..Len(feed.inflight)
    /\ LET cursor == feed.inflight[i].cursor IN
       \E data \in FeedPages(posts, cursor) :
          feed' = [feed EXCEPT
                     !.posts = IF cursor # NoCursor THEN @ \o data.results ELSE data.results,
                     !.nextCursor = data.next,
                     !.error = FALSE,
                     !.loading = FALSE,
                     !.loadingMore = FALSE,
                     !.inflight = Without(@, i),
                     !.first = IF cursor = NoCursor THEN {p.id : p \in posts} ELSE @]
    /\ UNCHANGED <<notFeed, posts>>

\* the i-th request in flight fails and loadPosts resumes in its catch block
RejectFeed(i) ==
    /\ i \in 1..Len(feed.inflight)
    /\ feed' = [feed EXCEPT !.error = TRUE, !.loading = FALSE, !.loadingMore = FALSE,
                            !.inflight = Without(@, i)]
    /\ UNCHANGED <<notFeed, posts>>

NextFeed ==
    \/ \E created_at \in 1..MaxStamp : InsertPost(created_at)
    \/ Mount
    \/ HandleLoadMore
    \/ Retry
    \/ \E i \in 1..Len(feed.inflight) : ResolveFeed(i)
    \/ \E i \in 1..Len(feed.inflight) : RejectFeed(i)

SpecFeed == Init /\ [][NextFeed]_vars

\* ---- deleting comments and the post, and liking what is gone ----------------
ThePost == <<"post", 1>>
AbsentPost == <<"post", 2>>       \* an id no post was ever stored under
ThreadPosts == {ThePost, AbsentPost}

\* Post.objects.filter(id=post_id) finds a row
Exists(t) == t \in DOMAIN like_count

\* every Comment table CreateComment builds with n comments or fewer
RECURSIVE Threads(_)
Threads(n) ==
    IF n = 0 THEN {<<>>}
    ELSE LET shorter == Threads(n - 1) IN
         shorter \cup UNION {{Append(t, NewComment(t, p)) : p \in {NoParent} \cup Ids(t)} :
                                t \in {x \in shorter : Len(x) = n - 1}}

\* parent = ForeignKey('self', on_delete=CASCADE): the rows a delete collects
RECURSIVE Collect(_, _)
Collect(table, ids) ==
    LET more == ids \cup {table[i].id : i \in {j \in 1..Len(table) : table[j].parent_id \in ids}}
    IN IF more = ids THEN ids ELSE Collect(table, more)

\* post_delete is handled for the comment the delete was called on only
SignalsFired_Once(removed) == 1

\* post_delete fires once for every deleted Comment row
SignalsFired(removed) == Cardinality(removed)

\* decrement_comment_count, n times: the update matches no row once the post
\* is gone
decrement_comment_count(cc, t, n) ==
    [x \in DOMAIN cc |-> IF x = t THEN cc[x] - n ELSE cc[x]]

\* the Like rows of a deleted target go with it
CascadeLikes(rows, t) == [k \in DOMAIN rows |-> IF k[2] = t THEN 0 ELSE rows[k]]

InitThread ==
    /\ likes = [k \in Users \X ThreadPosts |-> 0]
    /\ like_count = [t \in {ThePost} |-> 0]
    /\ karma = <<>>
    /\ clock = 0
    /\ tx = EmptyBag
    /\ hist = EmptyBag
    /\ conc = 0
    /\ streak = [k \in Keys |-> [n |-> 0, base |-> 0, fresh |-> TRUE]]
    /\ started = 0
    /\ undone = FALSE
    /\ board = NoBoard
    /\ comments \in Threads(MaxComments)
    /\ page = NoPage
    /\ InitComponents
    /\ comment_count = [t \in {ThePost} |-> Len(comments)]
    /\ outcome = NoOutcome

\* comment.delete(): the comment goes with every comment below it, and
\* decrement_comment_count runs for each deleted row
DeleteComment(id) ==
    /\ id \in Ids(comments)
    /\ LET removed == Collect(comments, {id}) IN
       /\ comments' = SelectSeq(comments, LAMBDA c : c.id \notin removed)
       /\ comment_count' = decrement_comment_count(comment_count, ThePost, SignalsFired(removed))
       /\ outcome' = [kind |-> "delete_comment", id |-> id, before |-> comments]
    /\ UNCHANGED <<likes, like_count, karma, notThread>>

\* post.delete(): the comments go through Comment.post, the Like rows of the
\* post with it, and the row with its two counters
DeletePost ==
    /\ Exists(ThePost)
    /\ comments' = <<>>
    /\ like_count' = [t \in DOMAIN like_count \ {ThePost} |-> like_count[t]]
    /\ comment_count' = [t \in DOMAIN comment_count \ {ThePost} |-> comment_count[t]]
    /\ likes' = CascadeLikes(likes, ThePost)
    /\ outcome' = [kind |-> "delete_post", before |-> comments]
    /\ UNCHANGED <<karma, notThread>>

\* like_post(user, post_id), run to completion
LikePost(u, t) ==
    /\ IF UniqueViolation(likes, <<u, t>>)
       THEN /\ outcome' = [kind |-> "like", user |-> u, target |-> t, found |-> Exists(t),
                           action |-> "already_exists"]
            /\ UNCHANGED <<likes, like_count, karma>>
       ELSE /\ likes' = [likes EXCEPT ![<<u, t>>] = @ + 1]
            /\ karma' = IF Exists(t) /\ GrantsKarma(u, t)
                        THEN Append(karma, NewKarmaEvent(u, t)) ELSE karma
            /\ like_count' = [x \in DOMAIN like_count |->
                                IF x = t THEN ApplyCounter(like_count[x], 1) ELSE like_count[x]]
            /\ outcome' = [kind |-> "like", user |-> u, target |-> t, found |-> Exists(t),
                           action |-> "created"]
    /\ UNCHANGED <<comments, comment_count, notThread>>

NextThread ==
    \/ \E id \in 1..MaxComments : DeleteComment(id)
    \/ DeletePost
    \/ \E u \in Users, t \in ThreadPosts : LikePost(u, t)

SpecThread == InitThread /\ [][NextThread]_vars

\* ---- apiRequest ---------------------------------------------------------------
Statuses == {200, 201, 204, 400, 401, 404, 500}
ContentTypes == {"none", "application/json", "application/json; charset=utf-8", "text/html"}
Absent == "undefined"
\* no body, null, no message: values with the shape of a body or a message
NoData == [type |-> "undefined", error |-> Absent, detail |-> Absent]
Null == [type |-> "null", error |-> Absent, detail |-> Absent]
NoMessage == [text |-> Absent, status |-> 0]
\* what response.json() can find in the body
Bodies ==
    {[type |-> "object", error |-> e, detail |-> d] : e \in {Absent, "E"}, d \in {Absent, "D"}}
    \cup {[type |-> t, error |-> Absent, detail |-> Absent] :
             t \in {"array", "string", "empty string", "number", "null", "malformed"}}
Responses == [status : Statuses, contentType : ContentTypes, body : Bodies]

\* response.ok
Ok(status) == status >= 200 /\ status <= 299
\* contentType && contentType.includes('application/json')
IsJson(contentType) ==
    contentType \in {"application/json", "application/json; charset=utf-8"}
\* data && typeof data === 'object'
IsObject(data) == data.type \in {"object", "array"}

Return(v) == [kind |-> "return", value |-> v]
Throw(name, message, fieldErrors) ==
    [kind |-> "throw", name |-> name, message |-> message, fieldErrors |-> fieldErrors]
HttpStatus(status) == [text |-> "HTTP", status |-> status]
\* data.error || data.detail || `HTTP ${response.status}`
ErrorMessage(r) ==
    IF r.body.error # Absent THEN [text |-> r.body.error, status |-> r.status]
    ELSE IF r.body.detail # Absent THEN [text |-> r.body.detail, status |-> r.status]
    ELSE HttpStatus(r.status)

apiRequest(r) ==
    IF ~IsJson(r.contentType)
    THEN IF ~Ok(r.status) THEN Throw("Error", HttpStatus(r.status), NoData)
         ELSE Return(Null)
    ELSE IF r.body.type = "malformed"
    THEN Throw("SyntaxError", HttpStatus(r.status), NoData)      \* response.json() rejects
    ELSE IF ~Ok(r.status)
    THEN IF r.status = 400 /\ IsObject(r.body)
         THEN Throw("ApiValidationError", [text |-> "Validation failed", status |-> r.status],
                    r.body)
         ELSE IF r.body.type = "null"
         THEN Throw("TypeError", HttpStatus(r.status), NoData)   \* data.error of null
         ELSE Throw("Error", ErrorMessage(r), NoData)
    ELSE Return(r.body)

InitApi ==
    /\ InitStore
    /\ InitFeed
    /\ form = NoForm
    /\ widget = NoWidget
    /\ label = NoLabel
    /\ reply \in {[kind |-> "response", response |-> r] : r \in Responses}

\* fetch has resolved with a response and apiRequest runs to its end
ApiRequest ==
    /\ reply.kind = "response"
    /\ reply' = [kind |-> "settled", response |-> reply.response,
                 out |-> apiRequest(reply.response)]
    /\ UNCHANGED notReply

NextApi == ApiRequest

SpecApi == InitApi /\ [][NextApi]_vars

\* ---- the CreatePost form ------------------------------------------------------
Variants == {"direct fetch", "try/catch"}
\* how the request of a submission ends: fetch resolves with a response or rejects
Settlements ==
    {[kind |-> "response", response |-> r] : r \in Responses}
    \cup {[kind |-> "network failure"]}

\* the component as it is first rendered, with a title and a content typed in
NewForm(variant) ==
    [kind |-> "form", variant |-> variant, pc |-> "idle", submitting |-> FALSE, filled |-> TRUE,
     fieldErrors |-> NoData, generalError |-> NoMessage, last |-> [kind |-> "none"]]

\* an await threw outside any try block: handleSubmit ends there and the rest
\* of it never runs
Rejected(f, out) == [f EXCEPT !.pc = "idle", !.last = out]

\* data.detail || data.error || `Server error (${response.status})`
ServerError(r) ==
    IF r.body.detail # Absent THEN [text |-> r.body.detail, status |-> r.status]
    ELSE IF r.body.error # Absent THEN [text |-> r.body.error, status |-> r.status]
    ELSE [text |-> "Server error", status |-> r.status]

\* handleSubmit of the direct fetch variant, from the await of fetch on
SubmitFetch(f, out) ==
    IF out.kind = "network failure" THEN Rejected(f, out)                \* await fetch
    ELSE IF out.response.body.type = "malformed" THEN Rejected(f, out)   \* await response.json()
    ELSE IF out.response.status = 201
    THEN [f EXCEPT !.pc = "idle", !.last = out, !.filled = FALSE, !.submitting = FALSE]
    ELSE IF out.response.body.type = "null" THEN Rejected(f, out)        \* data.details, data.detail
    ELSE IF out.response.status = 400
    THEN [f EXCEPT !.pc = "idle", !.last = out, !.fieldErrors = out.response.body,
                   !.submitting = FALSE]
    ELSE [f EXCEPT !.pc = "idle", !.last = out, !.generalError = ServerError(out.response),
                   !.submitting = FALSE]

\* createPost(title, content): apiRequest, or the rejection of fetch itself
createPost(out) ==
    IF out.kind = "network failure"
    THEN Throw("TypeError", [text |-> "Failed to fetch", status |-> 0], NoData)
    ELSE apiRequest(out.response)

\* handleSubmit of the try/catch variant, from the await of createPost on
SubmitApi(f, out) ==
    LET r == createPost(out)
        caught ==
            IF r.kind = "return" THEN [f EXCEPT !.filled = FALSE]
            ELSE IF r.name = "ApiValidationError" THEN [f EXCEPT !.fieldErrors = r.fieldErrors]
            ELSE [f EXCEPT !.generalError = r.message]
    IN [caught EXCEPT !.pc = "idle", !.last = out, !.submitting = FALSE]     \* finally

InitForm ==
    /\ InitStore
    /\ InitFeed
    /\ widget = NoWidget
    /\ reply = NoReply
    /\ label = NoLabel
    /\ form \in {NewForm(v) : v \in Variants}

\* handleTitleChange / handleContentChange: the user types, which clears the errors
HandleChange ==
    /\ form.pc = "idle"
    /\ form' = [form EXCEPT !.filled = TRUE, !.fieldErrors = NoData, !.generalError = NoMessage]
    /\ UNCHANGED notForm

\* the submit button is pressed: handleSubmit up to its first await
HandleSubmit ==
    /\ form.pc = "idle"
    /\ form.filled /\ ~form.submitting            \* disabled={... || submitting}
    /\ form' = [form EXCEPT !.pc = "awaiting", !.submitting = TRUE,
                            !.fieldErrors = NoData, !.generalError = NoMessage]
    /\ UNCHANGED notForm

\* the request settles and handleSubmit runs on from its await
SettleSubmit(out) ==
    /\ form.pc = "awaiting"
    /\ form' = IF form.variant = "direct fetch" THEN SubmitFetch(form, out)
               ELSE SubmitApi(form, out)
    /\ UNCHANGED notForm

NextForm ==
    \/ HandleChange
    \/ HandleSubmit
    \/ \E out \in Settlements : SettleSubmit(out)

SpecForm == InitForm /\ [][NextForm]_vars

\* every request settles: fetch resolves or rejects in the end
SpecFormLive == SpecForm /\ WF_vars(\E out \in Settlements : SettleSubmit(out))

\* ---- the like button of a comment ---------------------------------------------
\* what toggleLike can come back with: an action of the server, a body without
\* one, or a rejection
LikeReplies == {"created", "removed", "already_exists", "none", "rejected"}

\* the Comment component as it is first rendered
NewWidget(n) ==
    [kind |-> "comment", likeLoading |-> FALSE, localLikeCount |-> n, isLiked |-> FALSE,
     pending |-> 0, clicks |-> 0,
     last |-> [out |-> "none yet", count |-> n, liked |-> FALSE]]

\* prev - 1
Decrement_NoFloor(prev) == prev - 1

\* Math.max(0, prev - 1)
Decrement(prev) == IF prev - 1 > 0 THEN prev - 1 ELSE 0

\* the try / catch of handleLike after toggleLike has settled
ApplyLike(w, out) ==
    IF out = "created" THEN [w EXCEPT !.localLikeCount = @ + 1, !.isLiked = TRUE]
    ELSE IF out = "removed" THEN [w EXCEPT !.localLikeCount = Decrement(@), !.isLiked = FALSE]
    ELSE w

InitWidget ==
    /\ InitStore
    /\ InitFeed
    /\ form = NoForm
    /\ reply = NoReply
    /\ label = NoLabel
    /\ widget \in {NewWidget(n) : n \in 0..MaxLikeCount}

\* a click on the like button, which is disabled while likeLoading: handleLike
\* up to its await
HandleLike ==
    /\ widget.clicks < MaxClicks
    /\ ~widget.likeLoading                        \* disabled={likeLoading}
    /\ ~widget.likeLoading                        \* if (likeLoading) return
    /\ widget' = [widget EXCEPT !.likeLoading = TRUE, !.pending = @ + 1, !.clicks = @ + 1]
    /\ UNCHANGED notWidget

\* toggleLike settles and handleLike runs to its end
SettleLike(out) ==
    /\ widget.pending > 0
    /\ widget' = [ApplyLike(widget, out) EXCEPT
                     !.likeLoading = FALSE,       \* finally
                     !.pending = @ - 1,
                     !.last = [out |-> out, count |-> widget.localLikeCount,
                               liked |-> widget.isLiked]]
    /\ UNCHANGED notWidget

NextWidget ==
    \/ HandleLike
    \/ \E out \in LikeReplies : SettleLike(out)

SpecWidget == InitWidget /\ [][NextWidget]_vars

\* ---- formatDistanceToNow -------------------------------------------------------
\* ages in seconds (now - date) on both sides of every threshold, and dates in
\* the future
AgeDays == {0, 1, 6, 7, 27, 28, 29, 30, 59, 359, 360, 364, 365, 730}
AgeSeconds == {0, 59, 60, 3599, 3600, 86399}
Ages == {d * 86400 + x : d \in AgeDays, x \in AgeSeconds} \cup {0 - 1, 0 - 60, 0 - 86400}

Label(n, unit) == [n |-> n, unit |-> unit]

formatDistanceToNow(seconds) ==
    LET minutes == seconds \div 60
        hours == minutes \div 60
        days == hours \div 24
        weeks == days \div 7
        months == days \div 30
        years == days \div 365
    IN IF seconds < 60 THEN Label(0, "just now")
       ELSE IF minutes < 60 THEN Label(minutes, "m ago")
       ELSE IF hours < 24 THEN Label(hours, "h ago")
       ELSE IF days < 7 THEN Label(days, "d ago")
       ELSE IF weeks < 4 THEN Label(weeks, "w ago")
       ELSE IF months < 12 THEN Label(months, "mo ago")
       ELSE Label(years, "y ago")

InitLabel ==
    /\ InitStore
    /\ InitFeed
    /\ form = NoForm
    /\ widget = NoWidget
    /\ reply = NoReply
    /\ label \in {[kind |-> "date", seconds |-> a] : a \in Ages}

\* PostCard renders formatDistanceToNow(post.created_at)
FormatDistanceToNow ==
    /\ label.kind = "date"
    /\ label' = [kind |-> "text", seconds |-> label.seconds,
                 out |-> formatDistanceToNow(label.seconds)]
    /\ UNCHANGED notLabel

NextLabel == FormatDistanceToNow

SpecLabel == InitLabel /\ [][NextLabel]_vars

\* ---- shorthands for the claims ------------------------------------------
Done(op, k, action) == CopiesIn(<<op, k, action>>, hist)
RowsOf(t) == SumOver([u \in Users |-> likes[<<u, t>>]], Users)
EventsOf(k) == {i \in 1..Len(karma) : karma[i].actor = k[1] /\ karma[i].target = k[2]}

\* every request received so far was op on the pair k, all of them were in
\* flight at the same time, none met a storage fault, and all have returned
RaceOver(op, k, conflict) ==
    /\ started >= 2
    /\ conc = started
    /\ tx = EmptyBag
    /\ Done(op, k, "created") + Done(op, k, conflict) = started

\* C1: in every reachable state there is at most one Like row for each
\* (actor, target kind, target id), committed or tentative, whatever the
\* interleaving of the like and toggle requests of the workers.
C1_OneLikePerPair ==
    /\ \A k \in Keys : likes[k] <= 1
    /\ \A r \in Open : likes[KeyOf(r)] + r.ins <= 1

C1_Witness ==
    \E k \in Keys :
        /\ conc >= 2
        /\ likes[k] = 1
        /\ Done("like", k, "created") = 1
        /\ Done("like", k, "already_exists") >= 1

C3_LikeCountMatchesRows ==
    \A t \in Targets : like_count[t] = RowsOf(t)

C3_Witness ==
    \E t \in Targets, k \in Keys :
        /\ like_count[t] = 1
        /\ k[2] = t
        /\ Done("toggle", k, "removed") >= 1
        /\ \E u \in Users : Done("like", <<u, t>>, "created") >= 1

\* the step returns action to the caller of op on the pair k
Completes(op, k, action) == Done(op, k, action)' = Done(op, k, action) + 1
Store == <<likes, like_count, karma>>
KeepsLog == Len(karma') >= Len(karma) /\ \A i \in 1..Len(karma) : karma'[i] = karma[i]
Liked(k) == [likes EXCEPT ![k] = @ + 1]
Unliked(k) == [likes EXCEPT ![k] = @ - 1]
Counted(t, d) == [like_count EXCEPT ![t] = @ + d]

\* a step either leaves the committed store alone or applies one whole
\* mutation: Like row + counter (+ KarmaEvent), or Like delete + counter
WholeMutation ==
    \/ Store' = Store
    \/ \E k \in Keys :
        /\ likes' = Liked(k)
        /\ like_count' = Counted(k[2], 1)
        /\ IF Author(k[2]) = k[1] THEN karma' = karma
           ELSE Len(karma') = Len(karma) + 1 /\ KeepsLog
    \/ \E k \in Keys :
        /\ likes' = Unliked(k)
        /\ like_count' = Counted(k[2], -1)
        /\ karma' = karma

\* C4: a like or toggle that fails for another reason than the uniqueness
\* conflict, at whatever step, returns a failure and leaves the Like rows,
\* the like_count and the KarmaEvent log as they were; no step ever makes
\* a part of a mutation visible.
C4_FailureRollsBack ==
    [][/\ \A op \in Ops, k \in Keys : Completes(op, k, "failed") => Store' = Store
       /\ WholeMutation]_vars

C4_Witness ==
    /\ undone
    /\ started = 1
    /\ tx = EmptyBag
    /\ \E op \in Ops, k \in Keys : Done(op, k, "failed") = 1
    /\ \A k \in Keys : likes[k] = 0
    /\ \A t \in Targets : like_count[t] = 0
    /\ karma = <<>>

\* C5: k toggles of one (actor, target) pair that start from not-liked, with
\* no other commit on the target in between, leave the pair not-liked and
\* like_count at its starting value when k is even, liked and like_count at
\* the starting value plus 1 when k is odd.
C5_ToggleParity ==
    \A k \in Keys :
        streak[k].fresh =>
            /\ likes[k] = streak[k].n % 2
            /\ like_count[k[2]] = streak[k].base + (streak[k].n % 2)

C5_Witness ==
    \E k \in Keys :
        /\ conc = 1
        /\ streak[k].fresh
        /\ streak[k].n = 2
        /\ streak[k].base = 1
        /\ likes[k] = 0
        /\ like_count[k[2]] = 1

\* C6: a toggle that finds the Like row of its pair deletes the row, takes
\* exactly 1 off like_count, leaves the KarmaEvent log as it is and returns
\* removed; the conflict is never returned as an error (only a storage
\* fault is).
C6_ToggleRemoves ==
    [][\A k \in Keys, a \in Actions \ {"failed"} :
          (Completes("toggle", k, a) /\ likes[k] >= 1) =>
              /\ a = "removed"
              /\ likes' = Unliked(k)
              /\ like_count' = Counted(k[2], -1)
              /\ karma' = karma]_vars

C6_Witness ==
    \E k \in Keys :
        /\ Done("toggle", k, "removed") = 1
        /\ likes[k] = 0
        /\ like_count[k[2]] = 0
        /\ EventsOf(k) # {}

\* C7: like_post for a pair that already has its Like returns already_exists
\* (success = false), raises nothing, and leaves the one Like row, the
\* like_count and the KarmaEvent log unchanged.
C7_LikeTwice ==
    [][\A k \in Keys, a \in Actions \ {"failed"} :
          (Completes("like", k, a) /\ likes[k] >= 1) =>
              /\ a = "already_exists"
              /\ likes[k] = 1
              /\ Store' = Store]_vars

C7_Witness ==
    \E k \in Keys :
        /\ conc = 1
        /\ Done("like", k, "created") = 1
        /\ Done("like", k, "already_exists") = 1
        /\ likes[k] = 1
        /\ like_count[k[2]] = 1

\* C8: a like of one's own post or comment creates the Like row and adds
\* exactly 1 to like_count but appends no KarmaEvent; no KarmaEvent ever has
\* its recipient as its actor.
C8_SelfLike ==
    [][/\ \A i \in 1..Len(karma') : karma'[i].recipient # karma'[i].actor
       /\ \A op \in Ops, k \in Keys :
            (Completes(op, k, "created") /\ Author(k[2]) = k[1]) =>
                /\ likes' = Liked(k)
                /\ like_count' = Counted(k[2], 1)
                /\ karma' = karma]_vars

C8_Witness ==
    \E k \in Keys :
        /\ Author(k[2]) = k[1]
        /\ Done("like", k, "created") = 1
        /\ likes[k] = 1
        /\ like_count[k[2]] = 1
        /\ karma = <<>>

\* C9: a like that returns created and whose actor is not the author of the
\* target appends exactly one KarmaEvent: recipient the author, actor the
\* liker, delta +5 for a post and +1 for a comment; no KarmaEvent carries
\* another delta.
C9_KarmaGranted ==
    [][/\ \A i \in 1..Len(karma') :
            karma'[i].karma_delta = IF karma'[i].target[1] = "post" THEN 5 ELSE 1
       /\ \A op \in Ops, k \in Keys :
            (Completes(op, k, "created") /\ Author(k[2]) # k[1]) =>
                /\ Len(karma') = Len(karma) + 1
                /\ KeepsLog
                /\ karma'[Len(karma')].recipient = Author(k[2])
                /\ karma'[Len(karma')].actor = k[1]
                /\ karma'[Len(karma')].target = k[2]
                /\ karma'[Len(karma')].karma_delta = IF k[2][1] = "post" THEN 5 ELSE 1]_vars

C9_Witness ==
    /\ \E i \in 1..Len(karma) : karma[i].karma_delta = 5 /\ karma[i].recipient = "alice"
    /\ \E i \in 1..Len(karma) : karma[i].karma_delta = 1 /\ karma[i].recipient = "bob"

\* C10: the KarmaEvent log is append-only: every step (like, toggle-remove,
\* leaderboard read, rolled-back transaction) keeps every KarmaEvent that was
\* there, at its place and with the same recipient, actor, kind, delta and
\* timestamp.
C10_AppendOnly == [][KeepsLog]_vars

C10_Witness ==
    \E k \in Keys :
        /\ EventsOf(k) # {}
        /\ Done("toggle", k, "removed") = 1
        /\ likes[k] = 0
        /\ \E op \in Ops, k2 \in Keys : Done(op, k2, "failed") = 1
        /\ clock > karma[1].created_at

\* ---- leaderboard claims (SpecBoard) --------------------------------------
\* the window as the specification words it: now - window <= t <= now
InWindow(hours) ==
    {i \in 1..Len(karma) : clock - hours <= karma[i].created_at /\ karma[i].created_at <= clock}
WindowRecipients(hours) == {karma[i].recipient : i \in InWindow(hours)}
WindowTotal(u, hours) ==
    LET mine == {i \in InWindow(hours) : karma[i].recipient = u}
    IN SumOver([i \in mine |-> karma[i].karma_delta], mine)
NoFutureEvent == \A i \in 1..Len(karma) : karma[i].created_at <= clock
Listed == {board.leaderboard[i].username : i \in DOMAIN board.leaderboard}

C12_TieBreak_AsStated ==
    board.kind = "leaderboard" =>
        \A i, j \in DOMAIN board.leaderboard :
            i < j =>
                \/ board.leaderboard[i].total_karma > board.leaderboard[j].total_karma
                \/ /\ board.leaderboard[i].total_karma = board.leaderboard[j].total_karma
                   /\ board.leaderboard[i].user_id < board.leaderboard[j].user_id

\* C13: on a log without post-dated events the leaderboard has
\* min(limit, number of recipients with an event in the window) entries, all
\* of different recipients of the window; no recipient left out has a
\* strictly greater in-window total than a listed one; with no event in the
\* window the list is empty.
C13_TopLimit ==
    (NoFutureEvent /\ board.kind = "leaderboard") =>
        LET n == Cardinality(WindowRecipients(board.hours))
        IN /\ Len(board.leaderboard) = IF board.limit < n THEN board.limit ELSE n
           /\ Cardinality(Listed) = Len(board.leaderboard)
           /\ Listed \subseteq WindowRecipients(board.hours)
           /\ \A u \in WindowRecipients(board.hours) \ Listed :
                \A i \in DOMAIN board.leaderboard :
                    WindowTotal(u, board.hours) <= board.leaderboard[i].total_karma
           /\ (n = 0 => board.leaderboard = <<>>)
           /\ \A i, j \in DOMAIN board.leaderboard :
                i < j => board.leaderboard[i].total_karma >= board.leaderboard[j].total_karma

C13_Witness ==
    /\ NoFutureEvent
    /\ board.kind = "leaderboard"
    /\ board.hours = 24
    /\ board.limit = 1
    /\ WindowRecipients(24) = Users
    /\ Len(board.leaderboard) = 1
    /\ board.leaderboard[1].total_karma = 5
    /\ \E i \in 1..Len(karma) : karma[i].created_at < clock - 24

Assembled == page.kind # "none" /\ page.out.error = "none"
Rendered == Render(page.out.tree, page.out.tree.roots, 0)
RenderedIds == {Rendered[i].id : i \in 1..Len(Rendered)}
Orphans(flat) ==
    {flat[i].id : i \in {j \in 1..Len(flat) :
        flat[j].parent_id # NoParent /\ flat[j].parent_id \notin Ids(flat)}}
\* position of the comment id in the input list
Pos(flat, id) == CHOOSE i \in 1..Len(flat) : flat[i].id = id
InInputOrder(flat, ids) ==
    \A i, j \in 1..Len(ids) : i < j => Pos(flat, ids[i]) < Pos(flat, ids[j])

\* C16: for an input list whose parent references form a forest with every
\* non-null parent present, build_comment_tree returns without error a forest
\* with as many nodes as the input has comments, whose pre-order traversal
\* holds every input comment exactly once; the empty list gives the empty
\* forest.
C16_ForestComplete ==
    (page.kind # "none" /\ ~HasOrphan(page.flat)) =>
        /\ page.out.error = "none"
        /\ Len(Rendered) = Len(page.flat)
        /\ RenderedIds = Ids(page.flat)
        /\ \A i \in 1..Len(Rendered) :
              page.out.tree.nodes[Rendered[i].id].comment = page.flat[Pos(page.flat, Rendered[i].id)]
        /\ (page.flat = <<>> => page.out.tree.roots = <<>>)

C16_Witness ==
    /\ page.kind = "tree"
    /\ ~HasOrphan(page.flat)
    /\ Len(page.flat) = 3
    /\ Len(comments) = 4
    /\ Len(page.out.tree.roots) = 1
    /\ \E i \in 1..Len(Rendered) : Rendered[i].depth = 2

\* C17: a comment whose parent identifier is not in the input is placed in
\* the root list with its subtree; nothing is dropped and no error is raised,
\* so the output holds every input comment.
C17_OrphanIsRoot_AsStated ==
    (page.kind # "none" /\ HasOrphan(page.flat)) =>
        /\ page.out.error = "none"
        /\ \A id \in Orphans(page.flat) :
              \E i \in 1..Len(page.out.tree.roots) : page.out.tree.roots[i] = id
        /\ RenderedIds = Ids(page.flat)

\* C18: the root list and every replies list keep the order the comments
\* have in the input: of two siblings the one earlier in the input comes
\* first.
C18_SiblingOrder ==
    Assembled =>
        /\ InInputOrder(page.flat, page.out.tree.roots)
        /\ \A id \in Ids(page.flat) :
              InInputOrder(page.flat, page.out.tree.nodes[id].replies)

C18_Witness ==
    /\ Assembled
    /\ page.kind = "post"
    /\ page.out.tree.roots = <<1, 2>>
    /\ page.out.tree.nodes[1].replies = <<3, 4>>

\* C19: every stored depth is 0 for a comment without parent and the
\* parent's depth + 1 otherwise, and every comment of an assembled forest is
\* rendered at the nesting level equal to its stored depth.
C19_DepthIsLevel ==
    /\ \A i \in 1..Len(comments) :
          comments[i].depth = IF comments[i].parent_id = NoParent THEN 0
                              ELSE comments[comments[i].parent_id].depth + 1
    /\ Assembled =>
          \A i \in 1..Len(Rendered) :
              Rendered[i].depth = page.out.tree.nodes[Rendered[i].id].comment.depth

C19_Witness ==
    /\ Assembled
    /\ page.kind = "post"
    /\ Len(Rendered) = 4
    /\ Rendered[3] = [id |-> 3, depth |-> 2]
    /\ Rendered[4] = [id |-> 4, depth |-> 1]
    /\ comments[3].depth = 2

FeedDone ==
    /\ feed.mounted /\ feed.inflight = <<>>
    /\ ~feed.loading /\ ~feed.error /\ feed.nextCursor = NoCursor
Shown(id) == {i \in 1..Len(feed.posts) : feed.posts[i].id = id}
LoadMoreInFlight == {i \in 1..Len(feed.inflight) : feed.inflight[i].cursor # NoCursor}

\* C21: once the client has followed every cursor to the end, every post that
\* existed when the first page was served is in the concatenated pages exactly
\* once, posts of one creation instant included, and the pages are in
\* creation-time-descending order.
C21_NoSkipNoRepeat_AsStated ==
    FeedDone =>
        /\ \A id \in feed.first : Cardinality(Shown(id)) = 1
        /\ \A i \in 1..(Len(feed.posts) - 1) :
              feed.posts[i].created_at >= feed.posts[i + 1].created_at

\* C28: at most one load-more request is in flight (so a second click before
\* the first request completes starts none), and the displayed list holds each
\* post id at most once.
C28_OneLoadMore ==
    /\ Cardinality(LoadMoreInFlight) <= 1
    /\ \A i, j \in 1..Len(feed.posts) : feed.posts[i].id = feed.posts[j].id => i = j

\* a second page is requested while the list of the first page is displayed
C28_Witness ==
    /\ Cardinality(LoadMoreInFlight) = 1
    /\ feed.loadingMore
    /\ Len(feed.posts) = PageSize

\* ---- deletes -----------------------------------------------------------------
RowOf(table, id) == table[CHOOSE i \in 1..Len(table) : table[i].id = id]

\* the parent chain of c, c itself included, passes through the comment id
RECURSIVE Under(_, _, _)
Under(table, c, id) ==
    \/ c.id = id
    \/ /\ c.parent_id # NoParent
       /\ Under(table, RowOf(table, c.parent_id), id)

\* C22: deleting a comment removes it and every comment whose parent chain
\* includes it and nothing else, and the post's comment_count equals the
\* number of comments that remain.
C22_CascadeAndCount ==
    /\ Exists(ThePost) => comment_count[ThePost] = Len(comments)
    /\ outcome.kind = "delete_comment" =>
          comments = SelectSeq(outcome.before, LAMBDA c : ~Under(outcome.before, c, outcome.id))

\* a comment with a reply and a reply to that reply was deleted, one comment stays
C22_Witness ==
    /\ outcome.kind = "delete_comment"
    /\ Len(outcome.before) = 4 /\ Len(comments) = 1
    /\ \E i \in 1..4 : outcome.before[i].depth = 2
    /\ comment_count[ThePost] = 1

C25_ThrowsOnNon2xx_AsStated ==
    (reply.kind = "settled" /\ ~Ok(reply.response.status)) =>
        /\ reply.out.kind = "throw"
        /\ reply.response.status = 400 =>
              /\ reply.out.name = "ApiValidationError"
              /\ reply.out.fieldErrors = reply.response.body
        /\ reply.response.status # 400 => reply.out.name = "Error"

\* ---- the ledger against the calls ----------------------------------------------
\* C26: for every (actor, target) pair the KarmaEvents recorded with that actor
\* for that target are as many as the like/toggle calls on the pair that
\* returned created while the actor is not the target's author; removed,
\* already_exists and failed calls add none.
C26_EventsMatchCreated ==
    \A k \in Keys :
        Cardinality(EventsOf(k)) =
            IF Author(k[2]) # k[1]
            THEN Done("like", k, "created") + Done("toggle", k, "created")
            ELSE 0

\* one pair was liked, unliked and liked again: two events, one removed call
C26_Witness ==
    \E k \in Keys :
        /\ Cardinality(EventsOf(k)) = 2
        /\ Done("toggle", k, "removed") = 1
        /\ Done("toggle", k, "created") + Done("like", k, "created") = 2

\* ---- the CreatePost form ------------------------------------------------------
\* C27: in both variants a submission that set submitting to true sets it back
\* to false in the end, whatever way the request settles.
C27_SubmittingReset_AsStated ==
    (form.submitting) ~> (~form.submitting)

\* ---- the like button of a comment ---------------------------------------------
\* C29: handleLike has at most one request pending; created sets isLiked and
\* adds exactly 1 to localLikeCount, removed clears isLiked and subtracts 1
\* without going below 0, a failure or any other action leaves both as they
\* were; likeLoading is false whenever no request is pending.
C29_LikeButton ==
    /\ widget.pending <= 1
    /\ widget.localLikeCount >= 0
    /\ widget.pending = 0 => ~widget.likeLoading
    /\ widget.last.out = "created" =>
          widget.isLiked /\ widget.localLikeCount = widget.last.count + 1
    /\ widget.last.out = "removed" =>
          /\ ~widget.isLiked
          /\ widget.localLikeCount = IF widget.last.count = 0 THEN 0 ELSE widget.last.count - 1
    /\ widget.last.out \in {"already_exists", "none", "rejected"} =>
          /\ widget.isLiked = widget.last.liked
          /\ widget.localLikeCount = widget.last.count

\* a second removed answer in a row arrived while the count was already 0
C29_Witness ==
    /\ widget.last.out = "removed"
    /\ widget.last.count = 0 /\ widget.clicks >= 2
    /\ widget.localLikeCount = 0 /\ ~widget.isLiked /\ ~widget.likeLoading

\* ---- formatDistanceToNow -------------------------------------------------------
\* C30: below 60 seconds (future dates included) the text is 'just now';
\* otherwise the number of the label is at least 1 and the unit is minutes below
\* 60 minutes, hours below 24 hours, days below 7 days, weeks below 4 weeks,
\* months below 12 months and years beyond.
C30_LabelNumber_AsStated ==
    label.kind = "text" =>
        LET age == label.seconds
            out == label.out
        IN /\ age < 60 => out.unit = "just now"
           /\ age >= 60 =>
                /\ out.n >= 1
                /\ out.unit = IF age < 60 * 60 THEN "m ago"
                              ELSE IF age < 24 * 3600 THEN "h ago"
                              ELSE IF age < 7 * 86400 THEN "d ago"
                              ELSE IF age < 4 * 7 * 86400 THEN "w ago"
                              ELSE IF age < 12 * 30 * 86400 THEN "mo ago"
                              ELSE "y ago"

====
